---- MODULE Spec2Model ----
(***************************************************************************)
(* A model of audfprint.py, the command-line orchestrator of the audfprint *)
(* landmark fingerprinter: main, do_cmd, do_cmd_multiproc, multiproc_add   *)
(* and make_ht_from_list.  The index (hash_table.HashTable), the analyzer  *)
(* (audfprint_analyze.Analyzer) and the matcher (audfprint_match.Matcher)  *)
(* are separate modules of the repository; their operations are modelled   *)
(* from the design document (sections 3, 4.3 and 4.4).                     *)
(***************************************************************************)
EXTENDS Integers, Sequences, FiniteSets, TLC

\* ------------------------------------------------------------------ bounds
\* Longest list of input files produced by the filenames() iterator.
MaxFiles == 3
\* Largest --ncores value.
MaxCores == 2
\* --bucketsize: entries a bucket holds before the capacity policy applies.
Depth == 3
\* --maxtime: stored times are kept modulo this value.
MaxTime == 4

\* ------------------------------------------------------------------ inputs
\* Input files.  "x" is a file that cannot be read or analysed: every
\* operation that opens it raises.
Files == {"a", "b", "x"}
Unreadable == {"x"}
\* Hash codes, and the (hash code, anchor time) stream of each readable file.
Hashes == {1, 2}
HashesOf(f) ==
    CASE f = "a" -> << <<1, 0>>, <<2, 1>> >>
      [] f = "b" -> << <<1, 5>>, <<2, 3>> >>
      [] f = "z" -> << <<2, 2>> >>
      [] OTHER   -> << >>
\* Sample rates, and the marker of a table whose params has no 'samplerate'.
Rates == {8000, 11025}
NoSR == 0
Commands == {"new", "add", "precompute", "merge", "match"}

\* All sequences over S of length at most n.
SeqsUpTo(S, n) == UNION {[1..k -> S] : k \in 0..n}

\* ------------------------------------------------------- HashIndex (sec 4.3)
\* None, for the commands with no index or no analyzer.
NoTable == [kind |-> "None"]
NoAnalyzer == [kind |-> "None"]

\* HashTable(hashbits, depth, maxtime): an empty index, not dirty.
EmptyTable ==
    [kind |-> "HashTable", names |-> << >>,
     table |-> [h \in Hashes |-> << >>],
     dirty |-> FALSE, samplerate |-> NoSR, evicted |-> FALSE]

\* One bucket entry appended under the capacity policy: a full bucket keeps
\* its contents and the table records that the policy was applied.
PutEntry(ht, h, id, t) ==
    IF Len(ht.table[h]) < Depth
    THEN [ht EXCEPT !.table[h] = Append(@, <<id, t % MaxTime>>)]
    ELSE [ht EXCEPT !.evicted = TRUE]

RECURSIVE PutAll(_, _, _)
PutAll(ht, id, hs) ==
    IF hs = << >> THEN ht
    ELSE PutAll(PutEntry(ht, Head(hs)[1], id, Head(hs)[2]), id, Tail(hs))

\* store(trackName, hashStream): a fresh track id (the position in the name
\* table; a repeated name is a distinct track), one entry per hash, dirty.
Store(ht, name, hs) ==
    LET named == [ht EXCEPT !.names = Append(@, name), !.dirty = TRUE]
    IN  PutAll(named, Len(named.names), hs)

\* The entries of a bucket with the incoming track ids moved past `offset`.
Remap(bucket, offset) ==
    [i \in 1..Len(bucket) |-> <<bucket[i][1] + offset, bucket[i][2]>>]

RECURSIVE PutBucket(_, _, _)
PutBucket(ht, h, entries) ==
    IF entries = << >> THEN ht
    ELSE PutBucket(PutEntry(ht, h, Head(entries)[1], Head(entries)[2]),
                   h, Tail(entries))

RECURSIVE MergeBuckets(_, _, _, _)
MergeBuckets(ht, other, offset, hset) ==
    IF hset = {} THEN ht
    ELSE LET h == CHOOSE x \in hset : TRUE
         IN  MergeBuckets(PutBucket(ht, h, Remap(other.table[h], offset)),
                          other, offset, hset \ {h})

\* merge(other): the incoming names are appended, the incoming ids remapped
\* to fresh local ids, the buckets united under the capacity policy; dirty.
Merge(ht, other) ==
    LET offset == Len(ht.names)
        named  == [ht EXCEPT !.names = @ \o other.names, !.dirty = TRUE,
                             !.evicted = @ \/ other.evicted]
    IN  MergeBuckets(named, other, offset, Hashes)

\* Analyzer.ingest(hash_tab, filename): the file's hashes stored under its name.
Ingest(ht, f) == Store(ht, f, HashesOf(f))

\* identify: for every query hash, the bucket's entries as (track name, time
\* offset) votes.  Reads the index only.
MatchMsgs(ht, f) ==
    LET q == HashesOf(f)
    IN  UNION {{<<ht.names[ht.table[q[i][1]][j][1]],
                  ht.table[q[i][1]][j][2] - (q[i][2] % MaxTime)>> :
                    j \in 1..Len(ht.table[q[i][1]])} : i \in 1..Len(q)}

\* The table stored in a database file named f (sec 6): load of an
\* unreadable file fails; a readable one holds the track f.
TableOf(f) == [Ingest(EmptyTable, f) EXCEPT !.dirty = FALSE]

\* The indexes a database file may hold on entry.
StartTables == {EmptyTable, TableOf("z")}

\* ------------------------------------------------------------------- state
VARIABLES
    args,       \* the docopt arguments: cmd, dbase, opfile, ncores, files, samplerate
    pc,         \* position of the main process
    analyzer,   \* the Analyzer of main (None for merge)
    hash_tab,   \* the master index of main (None for precompute)
    start_tab,  \* the master index as created or loaded, before the command runs
    ix,         \* files consumed from filename_iter by the running loop
    out,        \* messages passed to report(), in order
    opFile,     \* the --opfile file: "untouched" or "truncated" (opened "w")
    dbSaves,    \* number of hash_tab.save(dbasename) calls
    precomp,    \* precomputed fingerprint files written
    filelists,  \* multiproc_add: per-worker file lists
    launched,   \* multiproc_add: processes started
    core,       \* multiproc_add: index of the gather loop
    rxbuf,      \* multiproc_add: hash_tabx, the table last received
    wpc,        \* per worker: "none", "start", "run", "sending", "done", "died"
    wix,        \* per worker: files stored so far
    wht,        \* per worker: the private table of make_ht_from_list
    pipe,       \* per worker: tables sent and not yet received
    txopen,     \* per worker pipe: processes holding its write end open
    mergeLog,   \* worker indices merged into the master, in order
    joinLog,    \* worker indices joined, in order
    sendLog,    \* worker indices in the order their send was issued
    jdone,      \* joblib: indices of the jobs that have returned
    jfailed     \* joblib: some job raised

vars == <<args, pc, analyzer, hash_tab, start_tab, ix, out, opFile, dbSaves,
          precomp, filelists, launched, core, rxbuf, wpc, wix, wht, pipe,
          txopen, mergeLog, joinLog, sendLog, jdone, jfailed>>

mainVars == <<analyzer, start_tab, ix, opFile, dbSaves, precomp, jdone, jfailed>>
workerVars == <<wpc, wix, wht, pipe, txopen, sendLog>>
coordVars == <<filelists, launched, core, rxbuf, mergeLog, joinLog>>

Workers == 0..(MaxCores - 1)
\* The identity of the coordinating (parent) process among the pipe holders.
Parent == MaxCores

\* ------------------------------------------------------------ multiproc_add
\* The unpack loop: filelists[ix % ncores].append(filename), ix from 0.
RECURSIVE Unpack(_, _, _, _)
Unpack(lists, fs, n, k) ==
    IF fs = << >> THEN lists
    ELSE Unpack([lists EXCEPT ![k % n] = Append(@, Head(fs))], Tail(fs), n, k + 1)

\* Variant of FileLists: the index is advanced before it is used.
FileListsFromOne(fs, n) == Unpack([w \in 0..(n - 1) |-> << >>], fs, n, 1)

FileLists(fs, n) == Unpack([w \in 0..(n - 1) |-> << >>], fs, n, 0)

MpUnpack ==
    /\ pc = "mp_unpack"
    /\ filelists' = FileLists(args.files, args.ncores)
    /\ launched' = 0
    /\ pc' = "mp_launch"
    /\ UNCHANGED <<args, hash_tab, out, core, rxbuf, mergeLog, joinLog>>
    /\ UNCHANGED mainVars /\ UNCHANGED workerVars

\* rx[ix], tx[ix] = Pipe(False); Process(target=make_ht_from_list).start().
\* The child is a copy of the parent: it holds the write end of its own pipe
\* and of every pipe opened before it; the parent keeps all of them.
MpLaunch ==
    /\ pc = "mp_launch"
    /\ launched < args.ncores
    /\ wpc' = [wpc EXCEPT ![launched] = "start"]
    /\ txopen' = [k \in Workers |->
                    IF k = launched THEN {Parent, launched}
                    ELSE IF k < launched /\ txopen[k] # {}
                         THEN txopen[k] \cup {launched}
                         ELSE txopen[k]]
    /\ launched' = launched + 1
    /\ pc' = IF launched + 1 = args.ncores THEN "mp_recv" ELSE "mp_launch"
    /\ UNCHANGED <<args, hash_tab, out, filelists, core, rxbuf, mergeLog,
                   joinLog, wix, wht, pipe, sendLog>>
    /\ UNCHANGED mainVars

\* A process that ends closes every descriptor it holds.
CloseAll(w) == [k \in Workers |-> txopen[k] \ {w}]

\* make_ht_from_list: ht = HashTable(hashbits, depth, maxtime), in the child.
WorkerCreate(w) ==
    /\ wpc[w] = "start"
    /\ wht' = [wht EXCEPT ![w] = EmptyTable]
    /\ wpc' = [wpc EXCEPT ![w] = "run"]
    /\ UNCHANGED <<args, pc, hash_tab, out, wix, pipe, txopen, sendLog>>
    /\ UNCHANGED mainVars /\ UNCHANGED coordVars

\* Variant of WorkerStore: the worker stores into the table of the parent.
WorkerStoreShared(w) ==
    /\ wpc[w] = "run"
    /\ wix[w] < Len(filelists[w])
    /\ LET f == filelists[w][wix[w] + 1] IN
         IF f \in Unreadable
         THEN /\ wpc' = [wpc EXCEPT ![w] = "died"]
              /\ txopen' = CloseAll(w)
              /\ UNCHANGED <<hash_tab, wix>>
         ELSE /\ hash_tab' = Store(hash_tab, f, HashesOf(f))
              /\ wix' = [wix EXCEPT ![w] = @ + 1]
              /\ UNCHANGED <<wpc, txopen>>
    /\ UNCHANGED <<args, pc, wht, out, pipe, sendLog>>
    /\ UNCHANGED mainVars /\ UNCHANGED coordVars

\* make_ht_from_list, one turn of the loop: wavfile2hashes, then store into
\* the worker's own table.  An unreadable file ends the process with nothing
\* sent.
WorkerStore(w) ==
    /\ wpc[w] = "run"
    /\ wix[w] < Len(filelists[w])
    /\ LET f == filelists[w][wix[w] + 1] IN
         IF f \in Unreadable
         THEN /\ wpc' = [wpc EXCEPT ![w] = "died"]
              /\ txopen' = CloseAll(w)
              /\ UNCHANGED <<wht, wix>>
         ELSE /\ wht' = [wht EXCEPT ![w] = Store(@, f, HashesOf(f))]
              /\ wix' = [wix EXCEPT ![w] = @ + 1]
              /\ UNCHANGED <<wpc, txopen>>
    /\ UNCHANGED <<args, pc, hash_tab, out, pipe, sendLog>>
    /\ UNCHANGED mainVars /\ UNCHANGED coordVars

\* pipe.send(ht): returns at once when the pickled table fits the pipe's
\* buffer, else blocks until the coordinator has read it.
WorkerSend(w) ==
    /\ wpc[w] = "run"
    /\ wix[w] = Len(filelists[w])
    /\ pipe' = [pipe EXCEPT ![w] = Append(@, wht[w])]
    /\ sendLog' = Append(sendLog, w)
    /\ \E fits \in BOOLEAN :
         IF fits
         THEN wpc' = [wpc EXCEPT ![w] = "done"] /\ txopen' = CloseAll(w)
         ELSE wpc' = [wpc EXCEPT ![w] = "sending"] /\ UNCHANGED txopen
    /\ UNCHANGED <<args, pc, hash_tab, out, wix, wht>>
    /\ UNCHANGED mainVars /\ UNCHANGED coordVars

WorkerExit(w) ==
    /\ wpc[w] = "sending"
    /\ pipe[w] = << >>
    /\ wpc' = [wpc EXCEPT ![w] = "done"]
    /\ txopen' = CloseAll(w)
    /\ UNCHANGED <<args, pc, hash_tab, out, wix, wht, pipe, sendLog>>
    /\ UNCHANGED mainVars /\ UNCHANGED coordVars

\* Variant of MpRecv: the table of whichever worker has sent is taken.
MpRecvAnyReady ==
    /\ pc = "mp_recv"
    /\ \E w \in Workers :
         /\ pipe[w] # << >>
         /\ rxbuf' = Head(pipe[w])
         /\ pipe' = [pipe EXCEPT ![w] = Tail(@)]
         /\ out' = Append(out, <<"hash_table", core, Len(Head(pipe[w]).names)>>)
    /\ pc' = "mp_merge"
    /\ UNCHANGED <<args, hash_tab, filelists, launched, core, mergeLog, joinLog,
                   wpc, wix, wht, txopen, sendLog>>
    /\ UNCHANGED mainVars

\* hash_tabx = rx[core].recv(), then the report of its size.  recv blocks
\* while the pipe is empty and some process holds its write end; with no
\* writer left it raises EOFError.
MpRecv ==
    /\ pc = "mp_recv"
    /\ IF pipe[core] # << >>
       THEN /\ rxbuf' = Head(pipe[core])
            /\ pipe' = [pipe EXCEPT ![core] = Tail(@)]
            /\ out' = Append(out, <<"hash_table", core, Len(Head(pipe[core]).names)>>)
            /\ pc' = "mp_merge"
       ELSE /\ txopen[core] = {}
            /\ pc' = "aborted"
            /\ UNCHANGED <<rxbuf, pipe, out>>
    /\ UNCHANGED <<args, hash_tab, filelists, launched, core, mergeLog, joinLog,
                   wpc, wix, wht, txopen, sendLog>>
    /\ UNCHANGED mainVars

\* Variant of MpMerge: the received table replaces the master.
MpMergeOverwrite ==
    /\ pc = "mp_merge"
    /\ hash_tab' = [rxbuf EXCEPT !.dirty = TRUE]
    /\ mergeLog' = Append(mergeLog, core)
    /\ pc' = "mp_join"
    /\ UNCHANGED <<args, out, filelists, launched, core, rxbuf, joinLog>>
    /\ UNCHANGED mainVars /\ UNCHANGED workerVars

\* hash_tab.merge(hash_tabx)
MpMerge ==
    /\ pc = "mp_merge"
    /\ hash_tab' = Merge(hash_tab, rxbuf)
    /\ mergeLog' = Append(mergeLog, core)
    /\ pc' = "mp_join"
    /\ UNCHANGED <<args, out, filelists, launched, core, rxbuf, joinLog>>
    /\ UNCHANGED mainVars /\ UNCHANGED workerVars

\* pr[core].join(), and the next turn of the gather loop.
MpJoin ==
    /\ pc = "mp_join"
    /\ wpc[core] \in {"done", "died"}
    /\ joinLog' = Append(joinLog, core)
    /\ core' = core + 1
    /\ pc' = IF core + 1 = args.ncores THEN "finish" ELSE "mp_recv"
    /\ UNCHANGED <<args, hash_tab, out, filelists, launched, rxbuf, mergeLog>>
    /\ UNCHANGED mainVars /\ UNCHANGED workerVars

\* ---------------------------------------------------------------- do_cmd
\* The loop a command runs, or "aborted" for the final else (ValueError).
DoCmdBranch(cmd) ==
    CASE cmd = "merge"             -> "merge_loop"
      [] cmd = "precompute"        -> "precompute_loop"
      [] cmd = "match"             -> "match_loop"
      [] cmd \in {"new", "add"}    -> "add_loop"
      [] OTHER                     -> "aborted"

DoCmdMultiprocBranch(cmd) ==
    CASE cmd \in {"precompute", "match"} -> "mp_jobs"
      [] cmd \in {"new", "add"}          -> "mp_unpack"
      [] OTHER                           -> "aborted"

\* Where a for loop over filename_iter goes after its turn: round again, or
\* to what follows the loop.
AfterTurn(loop, n, after) == IF n = Len(args.files) THEN after ELSE loop

InLoop(loop) == pc = loop /\ ix < Len(args.files)

\* hash_tab2 = HashTable(filename); hash_tab.merge(hash_tab2)
DoMergeStep ==
    /\ InLoop("merge_loop")
    /\ LET f == args.files[ix + 1] IN
         IF f \in Unreadable
         THEN pc' = "aborted" /\ UNCHANGED <<hash_tab, ix>>
         ELSE /\ hash_tab' = Merge(hash_tab, TableOf(f))
              /\ ix' = ix + 1
              /\ pc' = AfterTurn("merge_loop", ix + 1, "finish")
    /\ UNCHANGED <<args, analyzer, start_tab, out, opFile, dbSaves, precomp,
                   jdone, jfailed>>
    /\ UNCHANGED workerVars /\ UNCHANGED coordVars

\* report(file_precompute(analyzer, filename, outdir, type)): the analysis,
\* then the fingerprint file written, then the message.
DoPrecomputeStep ==
    /\ InLoop("precompute_loop")
    /\ LET f == args.files[ix + 1] IN
         IF f \in Unreadable
         THEN pc' = "aborted" /\ UNCHANGED <<precomp, out, ix>>
         ELSE /\ precomp' = precomp \cup {f}
              /\ out' = Append(out, <<"wrote", f>>)
              /\ ix' = ix + 1
              /\ pc' = AfterTurn("precompute_loop", ix + 1, "finish")
    /\ UNCHANGED <<args, analyzer, hash_tab, start_tab, opFile, dbSaves,
                   jdone, jfailed>>
    /\ UNCHANGED workerVars /\ UNCHANGED coordVars

\* Variant of DoMatchStep: the query is also stored in the index.
DoMatchStepStoring ==
    /\ InLoop("match_loop")
    /\ LET f == args.files[ix + 1] IN
         IF f \in Unreadable
         THEN pc' = "aborted" /\ UNCHANGED <<out, ix, hash_tab>>
         ELSE /\ out' = Append(out, <<"match", f, MatchMsgs(hash_tab, f)>>)
              /\ hash_tab' = Ingest(hash_tab, f)
              /\ ix' = ix + 1
              /\ pc' = AfterTurn("match_loop", ix + 1, "finish")
    /\ UNCHANGED <<args, analyzer, start_tab, opFile, dbSaves,
                   precomp, jdone, jfailed>>
    /\ UNCHANGED workerVars /\ UNCHANGED coordVars

\* msgs = matcher.file_match_to_msgs(analyzer, hash_tab, filename); report(msgs)
DoMatchStep ==
    /\ InLoop("match_loop")
    /\ LET f == args.files[ix + 1] IN
         IF f \in Unreadable
         THEN pc' = "aborted" /\ UNCHANGED <<out, ix>>
         ELSE /\ out' = Append(out, <<"match", f, MatchMsgs(hash_tab, f)>>)
              /\ ix' = ix + 1
              /\ pc' = AfterTurn("match_loop", ix + 1, "finish")
    /\ UNCHANGED <<args, analyzer, hash_tab, start_tab, opFile, dbSaves,
                   precomp, jdone, jfailed>>
    /\ UNCHANGED workerVars /\ UNCHANGED coordVars

\* report(["... ingesting #ix ..."]); dur, nhash = analyzer.ingest(hash_tab, filename)
DoAddStep ==
    /\ InLoop("add_loop")
    /\ LET f == args.files[ix + 1] IN
         /\ out' = Append(out, <<"ingesting", ix, f>>)
         /\ IF f \in Unreadable
            THEN pc' = "aborted" /\ UNCHANGED <<hash_tab, analyzer, ix>>
            ELSE /\ hash_tab' = Ingest(hash_tab, f)
                 /\ analyzer' = [analyzer EXCEPT !.soundfiletotaldur = @ + 1]
                 /\ ix' = ix + 1
                 /\ pc' = AfterTurn("add_loop", ix + 1, "add_report")
    /\ UNCHANGED <<args, start_tab, opFile, dbSaves, precomp, jdone, jfailed>>
    /\ UNCHANGED workerVars /\ UNCHANGED coordVars

\* report(["Added ... (tothashes/float(analyzer.soundfiletotaldur)) ..."]):
\* the division raises ZeroDivisionError when nothing was ingested.
DoAddReport ==
    /\ pc = "add_report"
    /\ IF analyzer.soundfiletotaldur = 0
       THEN pc' = "aborted" /\ UNCHANGED out
       ELSE pc' = "finish" /\ out' = Append(out, <<"Added">>)
    /\ UNCHANGED <<args, hash_tab>>
    /\ UNCHANGED mainVars /\ UNCHANGED workerVars /\ UNCHANGED coordVars

\* ------------------------------------------- do_cmd_multiproc: joblib jobs
\* One delayed call, run by some joblib worker, in any order: file_precompute
\* writes its fingerprint file; matcher_file_match_to_msgs reads the index.
JobRun(i) ==
    /\ pc = "mp_jobs"
    /\ i \in (1..Len(args.files)) \ jdone
    /\ jdone' = jdone \cup {i}
    /\ IF args.files[i] \in Unreadable
       THEN jfailed' = TRUE /\ UNCHANGED precomp
       ELSE /\ precomp' = IF args.cmd = "precompute"
                          THEN precomp \cup {args.files[i]} ELSE precomp
            /\ UNCHANGED jfailed
    /\ UNCHANGED <<args, pc, analyzer, hash_tab, start_tab, ix, out, opFile, dbSaves>>
    /\ UNCHANGED workerVars /\ UNCHANGED coordVars

\* joblib.Parallel re-raises a job's exception in the caller.
JobsRaise ==
    /\ pc = "mp_jobs"
    /\ jfailed
    /\ pc' = "aborted"
    /\ UNCHANGED <<args, hash_tab, out>>
    /\ UNCHANGED mainVars /\ UNCHANGED workerVars /\ UNCHANGED coordVars

JobMsg(i) ==
    IF args.cmd = "precompute" THEN <<"wrote", args.files[i]>>
    ELSE <<"match", args.files[i], MatchMsgs(hash_tab, args.files[i])>>

\* for msgs in msgslist: report(msgs), once every job has returned.
JobsGather ==
    /\ pc = "mp_jobs"
    /\ ~jfailed
    /\ jdone = 1..Len(args.files)
    /\ out' = out \o [i \in 1..Len(args.files) |-> JobMsg(i)]
    /\ pc' = "finish"
    /\ UNCHANGED <<args, hash_tab>>
    /\ UNCHANGED mainVars /\ UNCHANGED workerVars /\ UNCHANGED coordVars

\* -------------------------------------------------------------------- main
\* if analyzer and 'samplerate' in hash_tab.params
\*        and hash_tab.params['samplerate'] != analyzer.target_sr:
\*     analyzer.target_sr = hash_tab.params['samplerate']
\* Variant of AdoptRate: the requested rate is kept.
KeepRate(an, ht) == an

AdoptRate(an, ht) ==
    IF an.kind # "None" /\ ht.samplerate # NoSR /\ ht.samplerate # an.target_sr
    THEN [an EXCEPT !.target_sr = ht.samplerate]
    ELSE an

\* if cmd is not "precompute": the index is needed, and with it a dbase name.
\* Variant of NeedsIndex: the comparison never finds "precompute".
NeedsIndexAlways(cmd) == TRUE

NeedsIndex(cmd) == cmd # "precompute"

\* setup_analyzer (unless merge), then the database-name check.
MainSetup ==
    /\ pc = "main"
    /\ analyzer' = IF args.cmd # "merge"
                   THEN [kind |-> "Analyzer", target_sr |-> args.samplerate,
                         soundfiletotaldur |-> 0]
                   ELSE NoAnalyzer
    /\ pc' = IF NeedsIndex(args.cmd)
             THEN IF ~args.dbase THEN "aborted"
                  ELSE IF args.cmd = "new" THEN "new_table" ELSE "load_table"
             ELSE "reporter"
    /\ UNCHANGED <<args, hash_tab, start_tab, ix, out, opFile, dbSaves, precomp,
                   jdone, jfailed>>
    /\ UNCHANGED workerVars /\ UNCHANGED coordVars

\* hash_tab = HashTable(hashbits, depth, maxtime); params['samplerate'] set.
MainNew ==
    /\ pc = "new_table"
    /\ hash_tab' = [EmptyTable EXCEPT !.samplerate = analyzer.target_sr]
    /\ start_tab' = hash_tab'
    /\ pc' = "reporter"
    /\ UNCHANGED <<args, analyzer, ix, out, opFile, dbSaves, precomp, jdone, jfailed>>
    /\ UNCHANGED workerVars /\ UNCHANGED coordVars

\* hash_tab = HashTable(dbasename): the load fails, or yields a table whose
\* params may or may not hold a samplerate; then the rate is adopted.
MainLoad ==
    /\ pc = "load_table"
    /\ \/ /\ pc' = "aborted"
          /\ UNCHANGED <<hash_tab, start_tab, analyzer>>
       \/ \E t \in StartTables, sr \in Rates \cup {NoSR} :
            /\ hash_tab' = [t EXCEPT !.samplerate = sr]
            /\ start_tab' = hash_tab'
            /\ analyzer' = AdoptRate(analyzer, hash_tab')
            /\ pc' = "reporter"
    /\ UNCHANGED <<args, ix, out, opFile, dbSaves, precomp, jdone, jfailed>>
    /\ UNCHANGED workerVars /\ UNCHANGED coordVars

\* setup_reporter: open(opfile, "w") when --opfile is given.
SetupReporter ==
    /\ pc = "reporter"
    /\ opFile' = IF args.opfile THEN "truncated" ELSE opFile
    /\ pc' = "dispatch"
    /\ UNCHANGED <<args, analyzer, hash_tab, start_tab, ix, out, dbSaves,
                   precomp, jdone, jfailed>>
    /\ UNCHANGED workerVars /\ UNCHANGED coordVars

\* if ncores > 1 and cmd != "merge": do_cmd_multiproc(...) else: do_cmd(...)
UseMultiproc == args.ncores > 1 /\ args.cmd # "merge"

Dispatch ==
    /\ pc = "dispatch"
    /\ ix' = 0
    /\ pc' = IF UseMultiproc
             THEN DoCmdMultiprocBranch(args.cmd)
             ELSE LET loop == DoCmdBranch(args.cmd) IN
                  IF loop = "aborted" THEN "aborted"
                  ELSE AfterTurn(loop, 0,
                                 IF loop = "add_loop" THEN "add_report" ELSE "finish")
    /\ UNCHANGED <<args, analyzer, hash_tab, start_tab, out, opFile, dbSaves,
                   precomp, jdone, jfailed>>
    /\ UNCHANGED workerVars /\ UNCHANGED coordVars

\* if hash_tab and hash_tab.dirty: hash_tab.save(dbasename)
\* Variant of SaveNeeded: any index is saved.
SaveAlways(ht) == ht.kind # "None"

SaveNeeded(ht) == ht.kind # "None" /\ ht.dirty

MainSave ==
    /\ pc = "finish"
    /\ dbSaves' = IF SaveNeeded(hash_tab) THEN dbSaves + 1 ELSE dbSaves
    /\ pc' = "done"
    /\ UNCHANGED <<args, analyzer, hash_tab, start_tab, ix, out, opFile,
                   precomp, jdone, jfailed>>
    /\ UNCHANGED workerVars /\ UNCHANGED coordVars

\* ------------------------------------------------------------ specifications

InitWorkers ==
    /\ filelists = << >>
    /\ launched = 0
    /\ core = 0
    /\ rxbuf = NoTable
    /\ wpc = [w \in Workers |-> "none"]
    /\ wix = [w \in Workers |-> 0]
    /\ wht = [w \in Workers |-> NoTable]
    /\ pipe = [w \in Workers |-> << >>]
    /\ txopen = [w \in Workers |-> {}]
    /\ mergeLog = << >>
    /\ joinLog = << >>
    /\ sendLog = << >>
    /\ jdone = {}
    /\ jfailed = FALSE

InitFiles ==
    /\ ix = 0
    /\ out = << >>
    /\ opFile = "untouched"
    /\ dbSaves = 0
    /\ precomp = {}

\* A run of main(argv) with the arguments docopt accepts.
Init ==
    /\ args \in [cmd : Commands, dbase : BOOLEAN, opfile : BOOLEAN,
                 ncores : 1..MaxCores, files : SeqsUpTo(Files, MaxFiles),
                 samplerate : Rates]
    /\ pc = "main"
    /\ analyzer = NoAnalyzer
    /\ hash_tab = NoTable
    /\ start_tab = NoTable
    /\ InitFiles
    /\ InitWorkers

MultiprocAdd ==
    \/ MpUnpack
    \/ MpLaunch
    \/ \E w \in Workers : WorkerCreate(w)
    \/ \E w \in Workers : WorkerStore(w)
    \/ \E w \in Workers : WorkerSend(w)
    \/ \E w \in Workers : WorkerExit(w)
    \/ MpRecv
    \/ MpMerge
    \/ MpJoin

Next ==
    \/ MainSetup
    \/ MainNew
    \/ MainLoad
    \/ SetupReporter
    \/ Dispatch
    \/ DoMergeStep
    \/ DoPrecomputeStep
    \/ DoMatchStep
    \/ DoAddStep
    \/ DoAddReport
    \/ \E i \in 1..MaxFiles : JobRun(i)
    \/ JobsRaise
    \/ JobsGather
    \/ MultiprocAdd
    \/ MainSave

Spec == Init /\ [][Next]_vars

\* A call of multiproc_add(analyzer, hash_tab, filename_iter, report, ncores)
\* on an index that was created or loaded, with any ncores >= 1.
InitAdd ==
    /\ args \in [cmd : {"new", "add"}, dbase : {TRUE}, opfile : {FALSE},
                 ncores : 1..MaxCores, files : SeqsUpTo(Files, MaxFiles),
                 samplerate : {11025}]
    /\ pc = "mp_unpack"
    /\ analyzer = [kind |-> "Analyzer", target_sr |-> 11025, soundfiletotaldur |-> 0]
    /\ hash_tab \in {[t EXCEPT !.samplerate = 11025] : t \in StartTables}
    /\ start_tab = hash_tab
    /\ InitFiles
    /\ InitWorkers

SpecAdd == InitAdd /\ [][MultiprocAdd]_vars

\* ------------------------------------------------------------------ helpers
Range(q) == {q[i] : i \in 1..Len(q)}

\* The workers of the running build.
Active == 0..(args.ncores - 1)

\* multiproc_add has passed its unpack loop.
Unpacked ==
    \/ pc \in {"mp_launch", "mp_recv", "mp_merge", "mp_join"}
    \/ pc \in {"finish", "done", "aborted"} /\ launched > 0

\* multiproc_add has returned.
Returned == pc \in {"finish", "done"} /\ launched > 0

\* The single-core add path of do_cmd over a whole file list, as a function
\* of the starting index: analyzer.ingest on each file in input order.
RECURSIVE SeqAdd(_, _)
SeqAdd(ht, fs) ==
    IF fs = << >> THEN ht ELSE SeqAdd(Ingest(ht, Head(fs)), Tail(fs))

\* Two indexes hold the same tracks and the same bucket membership, up to a
\* renumbering of the track ids.
SameUpToRenumbering(h1, h2) ==
    /\ Len(h1.names) = Len(h2.names)
    /\ LET n == Len(h1.names) IN
       \E p \in [1..n -> 1..n] :
          /\ \A i, j \in 1..n : p[i] = p[j] => i = j
          /\ \A i \in 1..n : h2.names[p[i]] = h1.names[i]
          /\ \A h \in Hashes :
               /\ Len(h1.table[h]) = Len(h2.table[h])
               /\ {<<p[e[1]], e[2]>> : e \in Range(h1.table[h])}
                     = Range(h2.table[h])

\* ------------------------------------------------------------------- claims

\* C1: during a parallel build every store goes to the storing worker's own
\* private table, created by that worker; a worker's step changes neither the
\* master index nor another worker's table, and its result does not depend on
\* them; the master index changes only by the coordinator's merge of the
\* table it received, one merge per step.
C1_SingleWriter ==
    [][ /\ \A w \in Workers :
             wht'[w] # wht[w] =>
               /\ \A v \in Workers \ {w} : wht'[v] = wht[v]
               /\ UNCHANGED <<hash_tab, pc, rxbuf>>
               /\ \/ wpc[w] = "start" /\ wht'[w] = EmptyTable
                  \/ /\ wpc[w] = "run"
                     /\ wix[w] < Len(filelists[w])
                     /\ wht'[w] = Store(wht[w], filelists[w][wix[w] + 1],
                                        HashesOf(filelists[w][wix[w] + 1]))
        /\ hash_tab' # hash_tab =>
               /\ pc = "mp_merge"
               /\ hash_tab' = Merge(hash_tab, rxbuf)
               /\ wht' = wht
      ]_vars

\* C1 witness: two workers have each stored a file into their own tables and
\* both tables have been merged into the master.
C1_Witness ==
    /\ Returned
    /\ args.ncores = 2
    /\ Len(wht[0].names) = 1 /\ Len(wht[1].names) = 1
    /\ Len(hash_tab.names) = Len(start_tab.names) + 2

\* C2: when no bucket overflowed, the master index after multiproc_add holds
\* the same tracks and the same bucket membership, up to renumbering of the
\* track ids, as the index the single-core add loop builds from the same
\* starting index and the same files.
C2_ParallelEqualsSequential ==
    (Returned /\ ~hash_tab.evicted) =>
        /\ ~SeqAdd(start_tab, args.files).evicted
        /\ SameUpToRenumbering(hash_tab, SeqAdd(start_tab, args.files))

\* C2 witness: a build over three files on two workers, finished with worker 1
\* sending first, whose track order differs from the sequential build's.
C2_Witness ==
    /\ Returned
    /\ ~hash_tab.evicted
    /\ args.ncores = 2
    /\ Len(args.files) = 3
    /\ sendLog = <<1, 0>>
    /\ hash_tab.names # SeqAdd(start_tab, args.files).names

\* C3: the unpack loop puts the i-th file (from 0) at the end of list
\* i mod ncores: every file is in exactly one list, at position i div ncores,
\* the lists hold nothing else, and ncores workers are launched, empty lists
\* included.
C3_Partition ==
    Unpacked =>
        /\ DOMAIN filelists = Active
        /\ \A i \in 1..Len(args.files) :
             LET w == (i - 1) % args.ncores
                 k == ((i - 1) \div args.ncores) + 1
             IN  k <= Len(filelists[w]) /\ filelists[w][k] = args.files[i]
        /\ Cardinality(UNION {{<<w, k>> : k \in 1..Len(filelists[w])} : w \in Active})
             = Len(args.files)
        /\ (pc # "mp_launch" =>
              /\ launched = args.ncores
              /\ \A w \in Active : wpc[w] # "none")

\* C3 witness: one file and two cores; both workers were launched and the
\* second one's list is empty.
C3_Witness ==
    /\ pc = "mp_recv"
    /\ args.ncores = 2
    /\ Len(args.files) = 1
    /\ filelists[1] = << >>
    /\ wpc[0] # "none" /\ wpc[1] # "none"

\* C9: the master receives the workers' tables in worker order 0, 1, ...,
\* whatever the order the workers finish in; each merged table is the whole
\* table its worker built; a worker is joined only after its table was merged;
\* when multiproc_add returns each worker was merged exactly once.
C9_LeftToRightFold ==
    /\ \A i \in 1..Len(mergeLog) : mergeLog[i] = i - 1
    /\ \A i \in 1..Len(joinLog) : joinLog[i] = i - 1
    /\ Len(joinLog) <= Len(mergeLog)
    /\ Len(mergeLog) <= Len(joinLog) + 1
    /\ (pc = "mp_merge" =>
          /\ rxbuf = wht[core]
          /\ wix[core] = Len(filelists[core])
          /\ wpc[core] \in {"sending", "done"})
    /\ (Returned => Len(mergeLog) = args.ncores /\ Len(joinLog) = args.ncores)

\* C9 witness: worker 1 sent its table before worker 0 did, and the merges
\* still ran 0 then 1.
C9_Witness ==
    /\ Returned
    /\ sendLog = <<1, 0>>
    /\ mergeLog = <<0, 1>>
    /\ joinLog = <<0, 1>>

\* C4: once every worker has sent its table or ended without sending one, the
\* coordinator is not left waiting: while multiproc_add is in its gather loop
\* its next step (recv, merge or join) can be taken.
C4_CoordinatorNotStuck ==
    ( /\ pc \in {"mp_recv", "mp_merge", "mp_join"}
      /\ \A w \in Active : wpc[w] \in {"done", "died"} )
        => ENABLED (MpRecv \/ MpMerge \/ MpJoin)

\* C6: when main aborts, the run has written no database file, has not
\* created or truncated the report file, and has written no precomputed
\* fingerprint file.
C6_AbortBeforePersisting ==
    pc = "aborted" => dbSaves = 0 /\ opFile = "untouched" /\ precomp = {}

\* Number of store and merge calls applied to the master index so far.
MasterMutations ==
    Len(mergeLog)
      + (IF args.cmd \in {"new", "add", "merge"} /\ ~UseMultiproc THEN ix ELSE 0)

C7_RateAdopted ==
    (analyzer.kind # "None" /\ hash_tab.kind # "None"
        /\ hash_tab.samplerate # NoSR)
      => analyzer.target_sr = hash_tab.samplerate

\* C7 witness: a match run past its load, on a database whose rate differs
\* from the requested one, processing its files at the database's rate.
C7_Witness ==
    /\ args.cmd = "match"
    /\ pc = "match_loop"
    /\ hash_tab.samplerate # NoSR
    /\ hash_tab.samplerate # args.samplerate
    /\ analyzer.target_sr = hash_tab.samplerate

\* Nothing has been created, loaded, read, started, opened or written.
NothingDone ==
    /\ hash_tab = NoTable
    /\ ix = 0 /\ jdone = {} /\ launched = 0
    /\ opFile = "untouched" /\ out = << >>
    /\ precomp = {} /\ dbSaves = 0

\* C8: the first step of main aborts exactly when the command needs an index
\* and no database name is given, and then nothing else has been done; for
\* precompute there is never an index and never a save.
C8_DbaseRequired ==
    [][ /\ (pc = "main" =>
              ((pc' = "aborted") = (args.cmd # "precompute" /\ ~args.dbase)))
        /\ (args.cmd # "precompute" /\ ~args.dbase =>
              pc' = "aborted" /\ NothingDone')
        /\ (args.cmd = "precompute" => hash_tab' = NoTable /\ dbSaves' = 0)
      ]_vars

\* C8 witness: an add run with no database name, aborted.
C8_Witness ==
    /\ args.cmd = "add"
    /\ ~args.dbase
    /\ pc = "aborted"

\* C10: in a match run the index stays as it was loaded (contents and dirty
\* flag), nothing is merged, nothing is saved, and the k-th message reported
\* is the match of the k-th file against the loaded index alone.
C10_MatchReadOnly ==
    args.cmd = "match" =>
        /\ hash_tab = start_tab
        /\ mergeLog = << >>
        /\ dbSaves = 0
        /\ Len(out) <= Len(args.files)
        /\ \A k \in 1..Len(out) :
             out[k] = <<"match", args.files[k],
                        MatchMsgs(start_tab, args.files[k])>>

\* C10 witness: a completed multi-core match of two query files against a
\* database holding a track, one of them hitting it.
C10_Witness ==
    /\ args.cmd = "match"
    /\ pc = "done"
    /\ args.ncores = 2
    /\ Len(out) = 2
    /\ Len(hash_tab.names) = 1
    /\ \E k \in 1..2 : out[k][3] # {}

====
